---- MODULE Spec2Model ----
(***************************************************************************)
(* CineLog (src/script.js): the entry store of the watch tracker, its     *)
(* add/edit form, the quick actions Start / Finish / Plan to Watch, the   *)
(* confirm-delete dialog, and the localStorage blob the list is persisted *)
(* to and reloaded from.                                                   *)
(*                                                                         *)
(* Representation of JavaScript values:                                    *)
(*   - a date string is NoDate (the empty string '') or <<d>>, the ISO    *)
(*     day d counted in days from 1970-01-01;                              *)
(*   - a nullable number (planAt, editingId) is Null or <<n>>;            *)
(*   - Date.now() is the variable now, in clock ticks; TicksPerDay ticks  *)
(*     make one calendar day.                                              *)
(***************************************************************************)
EXTENDS Integers, Sequences, FiniteSets, TLC

VARIABLES
    items,          \* useState items: the entry store, newest first
    formData,       \* useState formData: the add/edit form
    editingId,      \* useState editingId: Null or <<id>> of the entry being edited
    showModal,      \* useState showModal: the add/edit modal is open
    confirmDelete,  \* useState confirmDelete: Null or <<entry>> awaiting confirmation
    storage,        \* localStorage['cineTrackElite']: Null or <<text>>
    now,            \* the clock read by Date.now() and todayISO()
    app,            \* "running", or "crashed" when constructing App threw
    filter,         \* useState filter: the status filter, or "all"
    genreFilter,    \* useState genreFilter: the genre filter, or "all"
    search,         \* useState search: the text of the search box
    sortBy,         \* useState sortBy: the display sort key
    lastOp          \* history: the store handler that made the last step, the id it
                    \* was called with, the store it was called on and, for a
                    \* load, the kind of value found under the storage key

vars == <<items, formData, editingId, showModal, confirmDelete, storage, now, app,
          filter, genreFilter, search, sortBy, lastOp>>

\* The controls of the filter bar.
view == <<filter, genreFilter, search, sortBy>>

----------------------------------------------------------------------------
(* Bounds of the model *)

\* The Add button is used only while the store holds fewer entries than this.
MaxItems == 1

\* The clock runs from 1 to MaxNow.
MaxNow == 2

\* Clock ticks per calendar day (86400000 ms in the source's units).
TicksPerDay == 2

\* The longest list found under the storage key at startup.
MaxSaved == 1

\* In the specification of the store as a list, the Add button is used only
\* while the store holds fewer entries than this.
MaxEntries == 2

\* The longest list the projection and the statistics are computed on.
MaxShown == 2

----------------------------------------------------------------------------
(* JavaScript values *)

Null == <<>>

NoDate == <<>>

\* JS truthiness of a date string: '' is falsy, any ISO date is truthy.
DateSet(d) == d # NoDate

\* JS truthiness of a nullable number: null and 0 are falsy.
NumSet(n) == n # Null /\ n[1] # 0

\* The dates the user can type into a date input (a day before 1970).
DateChoices == {<<-1>>}

\* The titles the user can type; '' is the empty input.
Titles == {<<>>, <<"a">>}

Statuses == {"queued", "planned", "watching", "finished"}

\* new Date().toISOString().split('T')[0] at clock value t.
todayISO(t) == <<t \div TicksPerDay>>

----------------------------------------------------------------------------
(* Pure functions of the source *)

\* Math.min(5, Math.max(0, n))
clamp5(n) == IF n < 0 THEN 0 ELSE IF n > 5 THEN 5 ELSE n

\* deriveStatus with the two date tests in the other order.
deriveStatusStartFirst(data) ==
    IF data.planToWatch THEN "planned"
    ELSE IF DateSet(data.startDate) THEN "watching"
    ELSE IF DateSet(data.endDate) THEN "finished"
    ELSE "queued"

\* deriveStatus(data): planned, else finished, else watching, else queued.
deriveStatus(data) ==
    IF data.planToWatch THEN "planned"
    ELSE IF DateSet(data.endDate) THEN "finished"
    ELSE IF DateSet(data.startDate) THEN "watching"
    ELSE "queued"

\* item.k of a parsed record: a record read from storage may lack any of its
\* status fields; an absent field reads as undefined, which is falsy.
Has(item, k) == k \in DOMAIN item

\* item.startDate || ''   (likewise endDate)
DateOr(item, k) == IF Has(item, k) THEN item[k] ELSE NoDate

\* Boolean(item.planToWatch || item.status === 'planned')
normPlanToWatch(item) ==
    \/ (Has(item, "planToWatch") /\ item.planToWatch)
    \/ (Has(item, "status") /\ item.status = "planned")

\* normPlanAt without `item.planAt ||`: a planned entry is stamped anew.
normPlanAtRestamp(item, t) ==
    IF normPlanToWatch(item) THEN <<t>> ELSE Null

\* normPlanAt with the operands the other way round:
\* planToWatch ? Date.now() : (item.planAt || null)
normPlanAtNow(item, t) ==
    IF normPlanToWatch(item) THEN <<t>>
    ELSE IF Has(item, "planAt") /\ NumSet(item.planAt) THEN item.planAt ELSE Null

\* item.planAt || (planToWatch ? Date.now() : null)
normPlanAt(item, t) ==
    IF Has(item, "planAt") /\ NumSet(item.planAt) THEN item.planAt
    ELSE IF normPlanToWatch(item) THEN <<t>> ELSE Null

\* planToWatch ? 'planned'
\*   : item.status || (item.isWatched ? 'finished' : item.startDate ? 'watching' : 'queued')
normStatus(item) ==
    IF normPlanToWatch(item) THEN "planned"
    ELSE IF Has(item, "status") /\ item.status # "" THEN item.status
    ELSE IF Has(item, "isWatched") /\ item.isWatched THEN "finished"
    ELSE IF DateSet(DateOr(item, "startDate")) THEN "watching"
    ELSE "queued"

\* normalizeItem without its last line: the stored isWatched is kept.
normalizeItemStoredWatched(item, t) ==
    [ id          |-> item.id,
      title       |-> item.title,
      rating      |-> item.rating,
      notes       |-> item.notes,
      genres      |-> item.genres,
      planToWatch |-> normPlanToWatch(item),
      startDate   |-> DateOr(item, "startDate"),
      endDate     |-> DateOr(item, "endDate"),
      planAt      |-> normPlanAt(item, t),
      status      |-> normStatus(item),
      isWatched   |-> (Has(item, "isWatched") /\ item.isWatched) ]

\* normalizeItem(item) at clock value t: the spread keeps id, title, rating,
\* notes and genres; the six status fields are recomputed.
normalizeItem(item, t) ==
    [ id          |-> item.id,
      title       |-> item.title,
      rating      |-> item.rating,
      notes       |-> item.notes,
      genres      |-> item.genres,
      planToWatch |-> normPlanToWatch(item),
      startDate   |-> DateOr(item, "startDate"),
      endDate     |-> DateOr(item, "endDate"),
      planAt      |-> normPlanAt(item, t),
      status      |-> normStatus(item),
      isWatched   |-> (normStatus(item) = "finished") ]

----------------------------------------------------------------------------
(* JSON.stringify / JSON.parse of the list *)

\* JSON text of one property value: a tagged value, <<"null">>, <<"bool", b>>,
\* <<"num", n>>, <<"str", s>> or <<"arr", elements>>.
JSONvalue(k, v) ==
    IF k \in {"id", "rating"} THEN <<"num", v>>
    ELSE IF k \in {"planToWatch", "isWatched"} THEN <<"bool", v>>
    ELSE IF k = "planAt" THEN (IF v = Null THEN <<"null">> ELSE <<"num", v[1]>>)
    ELSE IF k = "genres" THEN <<"arr", [i \in DOMAIN v |-> <<"str", v[i]>>]>>
    ELSE <<"str", v>>

\* JSON.stringify(items): every own property of every entry, in list order.
JSONstringify(list) ==
    [i \in DOMAIN list |-> [k \in DOMAIN list[i] |-> JSONvalue(k, list[i][k])]]

\* The JS value of the JSON value of property k (a nullable number is Null or <<n>>).
JSvalue(k, j) ==
    IF j[1] = "null" THEN Null
    ELSE IF j[1] = "arr" THEN [i \in DOMAIN j[2] |-> j[2][i][2]]
    ELSE IF k = "planAt" THEN <<j[2]>>
    ELSE j[2]

\* JSON.parse(saved)
JSONparse(blob) ==
    [i \in DOMAIN blob |-> [k \in DOMAIN blob[i] |-> JSvalue(k, blob[i][k])]]

\* A stored text is [kind, elems]: kind "array" is the JSON text of an array
\* of objects, elems; the other kinds have no elements: "empty" is the empty
\* string, "malformed" a text that is not JSON, "object" the text of a JSON
\* object and "null" the text null.
ArrayText(blob) == [kind |-> "array", elems |-> blob]

OtherTexts == { [kind |-> k, elems |-> <<>>] : k \in {"empty", "malformed", "object", "null"} }

\* `saved ?`: getItem's null and the empty string are falsy.
savedTruthy(saved) == saved # Null /\ saved[1].kind # "empty"

\* JSON.parse(saved).map(normalizeItem) throws: a SyntaxError from JSON.parse
\* on a text that is not JSON, a TypeError from .map on a value that is no array.
loadThrows(saved) == savedTruthy(saved) /\ saved[1].kind # "array"

\* useState initializer of items: saved ? JSON.parse(saved).map(normalizeItem) : []
loadItems(saved, t) ==
    IF ~savedTruthy(saved) THEN <<>>
    ELSE [i \in DOMAIN saved[1].elems |-> normalizeItem(JSONparse(saved[1].elems)[i], t)]

\* The persist effect: localStorage.setItem('cineTrackElite', JSON.stringify(items))
persist(list) == <<ArrayText(JSONstringify(list))>>

----------------------------------------------------------------------------
(* The form *)

initialForm ==
    [ title |-> <<>>, startDate |-> NoDate, endDate |-> NoDate, rating |-> 3,
      notes |-> "", status |-> "queued", genres |-> <<>>, planToWatch |-> FALSE,
      planAt |-> Null ]

\* setFormData(item): the form takes over the entry's fields.  The entry's id
\* and isWatched come along in the source; handleSave overwrites both, so the
\* form keeps the nine fields of initialForm.
formOf(item) == [k \in DOMAIN initialForm |-> item[k]]

\* The form's Plan to Watch button leaving the dates as they are.
formPlanToggleKeepsDates(prev, t) ==
    LET nextPlan == ~prev.planToWatch
    IN  [prev EXCEPT
            !.planToWatch = nextPlan,
            !.planAt      = IF nextPlan THEN (IF NumSet(prev.planAt) THEN prev.planAt ELSE <<t>>)
                            ELSE Null]

\* The form's Plan to Watch button.
formPlanToggle(prev, t) ==
    LET nextPlan == ~prev.planToWatch
    IN  [prev EXCEPT
            !.planToWatch = nextPlan,
            !.planAt      = IF nextPlan THEN (IF NumSet(prev.planAt) THEN prev.planAt ELSE <<t>>)
                            ELSE Null,
            !.startDate   = IF nextPlan THEN NoDate ELSE prev.startDate,
            !.endDate     = IF nextPlan THEN NoDate ELSE prev.endDate]

\* handleSave: the entry built from the form (without its id).
\* Number(formData.rating) is the rating itself: the form's rating is a number.
saveEntry(form, t) ==
    LET status == deriveStatus(form)
        planAt == IF form.planToWatch
                  THEN (IF NumSet(form.planAt) THEN form.planAt ELSE <<t>>)
                  ELSE Null
    IN  [ title       |-> form.title,
          startDate   |-> form.startDate,
          endDate     |-> form.endDate,
          rating      |-> form.rating,
          notes       |-> form.notes,
          genres      |-> form.genres,
          planToWatch |-> form.planToWatch,
          status      |-> status,
          planAt      |-> planAt,
          isWatched   |-> (status = "finished") ]

\* { ...entry, id }
withId(entry, id) ==
    [ id |-> id, title |-> entry.title, rating |-> entry.rating, notes |-> entry.notes,
      genres |-> entry.genres, planToWatch |-> entry.planToWatch,
      startDate |-> entry.startDate, endDate |-> entry.endDate,
      planAt |-> entry.planAt, status |-> entry.status, isWatched |-> entry.isWatched ]

----------------------------------------------------------------------------
(* The quick actions, on one entry *)

\* startItem without `endDate: ''`.
startItemKeepsEnd(item, t) ==
    [item EXCEPT
        !.startDate   = IF DateSet(item.startDate) THEN item.startDate ELSE todayISO(t),
        !.status      = "watching",
        !.isWatched   = FALSE,
        !.planToWatch = FALSE,
        !.planAt      = Null]

\* startItem with `startDate: todayISO()`.
startItemRestamp(item, t) ==
    [item EXCEPT
        !.startDate   = todayISO(t),
        !.status      = "watching",
        !.isWatched   = FALSE,
        !.endDate     = NoDate,
        !.planToWatch = FALSE,
        !.planAt      = Null]

\* startItem without `planAt: null`.
startItemKeepsPlanAt(item, t) ==
    [item EXCEPT
        !.startDate   = IF DateSet(item.startDate) THEN item.startDate ELSE todayISO(t),
        !.status      = "watching",
        !.isWatched   = FALSE,
        !.endDate     = NoDate,
        !.planToWatch = FALSE]

\* handleStart's replacement of the matching entry.
startItem(item, t) ==
    [item EXCEPT
        !.startDate   = IF DateSet(item.startDate) THEN item.startDate ELSE todayISO(t),
        !.status      = "watching",
        !.isWatched   = FALSE,
        !.endDate     = NoDate,
        !.planToWatch = FALSE,
        !.planAt      = Null]

\* finishItem with `startDate: todayISO()`.
finishItemRestamp(item, t) ==
    [item EXCEPT
        !.startDate   = todayISO(t),
        !.endDate     = todayISO(t),
        !.status      = "finished",
        !.isWatched   = TRUE,
        !.planToWatch = FALSE,
        !.planAt      = Null]

\* handleFinish's replacement of the matching entry.
finishItem(item, t) ==
    [item EXCEPT
        !.startDate   = IF DateSet(item.startDate) THEN item.startDate ELSE todayISO(t),
        !.endDate     = todayISO(t),
        !.status      = "finished",
        !.isWatched   = TRUE,
        !.planToWatch = FALSE,
        !.planAt      = Null]

\* planToggleItem without the re-derivation of status and isWatched.
planToggleItemStale(item, forceOn, t) ==
    LET nextPlan == IF forceOn # Null THEN forceOn[1] ELSE ~item.planToWatch
    IN  [item EXCEPT
            !.planToWatch = nextPlan,
            !.planAt = IF nextPlan
                       THEN (IF NumSet(item.planAt) THEN item.planAt ELSE <<t>>)
                       ELSE Null]

\* planToggleItem with planAt left as it is when the plan flag goes off.
planToggleItemKeepsPlanAt(item, forceOn, t) ==
    LET nextPlan == IF forceOn # Null THEN forceOn[1] ELSE ~item.planToWatch
        withPlan == [item EXCEPT
                        !.planToWatch = nextPlan,
                        !.planAt = IF nextPlan /\ ~NumSet(item.planAt)
                                   THEN <<t>> ELSE item.planAt]
        status   == deriveStatus(withPlan)
    IN  [withPlan EXCEPT !.status = status, !.isWatched = (status = "finished")]

\* planToggleItem emptying the dates when the plan flag goes on, as the
\* form's button does.
planToggleItemClearsDates(item, forceOn, t) ==
    LET nextPlan == IF forceOn # Null THEN forceOn[1] ELSE ~item.planToWatch
        withPlan == [item EXCEPT
                        !.planToWatch = nextPlan,
                        !.planAt = IF nextPlan
                                   THEN (IF NumSet(item.planAt) THEN item.planAt ELSE <<t>>)
                                   ELSE Null,
                        !.startDate = IF nextPlan THEN NoDate ELSE item.startDate,
                        !.endDate = IF nextPlan THEN NoDate ELSE item.endDate]
        status   == deriveStatus(withPlan)
    IN  [withPlan EXCEPT !.status = status, !.isWatched = (status = "finished")]

\* handlePlanToggle's replacement of the matching entry; forceOn is Null
\* (the default: toggle), <<TRUE>> or <<FALSE>>.
planToggleItem(item, forceOn, t) ==
    LET nextPlan == IF forceOn # Null THEN forceOn[1] ELSE ~item.planToWatch
        withPlan == [item EXCEPT
                        !.planToWatch = nextPlan,
                        !.planAt = IF nextPlan
                                   THEN (IF NumSet(item.planAt) THEN item.planAt ELSE <<t>>)
                                   ELSE Null]
        status   == deriveStatus(withPlan)
    IN  [withPlan EXCEPT !.status = status, !.isWatched = (status = "finished")]

\* [...items, entry]: the new entry behind the existing ones.
addLast(entry, list) == Append(list, entry)

\* [entry, ...items]: the new entry ahead of the existing ones.
addFirst(entry, list) == <<entry>> \o list

\* items.filter(item => item.id === id): the test inverted.
removeIdKeeps(list, id) == SelectSeq(list, LAMBDA item : item.id = id)

\* items.filter(item => item.id !== id)
removeId(list, id) == SelectSeq(list, LAMBDA item : item.id # id)

----------------------------------------------------------------------------
(* State after construction *)

\* The last step ran no store handler.
NoOp == [op |-> "none", id |-> 0, before |-> <<>>, found |-> "none"]

\* The last step ran the store handler `name` with `id` on the current store.
Op(name, id) == [op |-> name, id |-> id, before |-> items, found |-> "none"]


\* What getItem returned: "absent" for null, else the kind of the text.
textKind(saved) == IF saved = Null THEN "absent" ELSE saved[1].kind

\* App has just been constructed from the stored value `saved`; `list` is the
\* store of the page that was left.
LoadOp(saved, list) ==
    [op |-> "load", id |-> 0, before |-> list, found |-> textKind(saved)]

\* useState('all'), useState('all'), useState(''), useState('date').
viewInitial ==
    /\ filter = "all"
    /\ genreFilter = "all"
    /\ search = <<>>
    /\ sortBy = "date"

\* First render with nothing under the storage key: the store is empty, every
\* control is at its initial value, and the persist effect has written '[]'.
Init ==
    /\ now = 1
    /\ items = loadItems(Null, now)
    /\ formData = initialForm
    /\ editingId = Null
    /\ showModal = FALSE
    /\ confirmDelete = Null
    /\ viewInitial
    /\ storage = persist(items)
    /\ app = "running"
    /\ lastOp = NoOp

\* The add/edit modal and the confirm-delete dialog are fixed full-screen
\* layers (z-50) over the page and the navigation bar (z-40): while one is
\* open, no button of the page can be clicked.
PageFree == app = "running" /\ ~showModal /\ confirmDelete = Null

\* closeModal()
closeModal ==
    /\ showModal' = FALSE
    /\ editingId' = Null
    /\ formData' = initialForm

----------------------------------------------------------------------------
(* The handlers: each is the handler followed by the persist effect *)

\* The title input is `required`: no constraint at all.
titleValidAlways(form) == TRUE

\* The title input is `required`: the browser's constraint validation lets
\* the form submit only with a non-empty title.
titleValid(form) == form.title # <<>>

\* handleSave(e), called by the form's submit event.
handleSave ==
    /\ showModal
    /\ titleValid(formData)
    /\ LET entry == saveEntry(formData, now)
       IN  IF NumSet(editingId)
           THEN /\ items' = [i \in DOMAIN items |->
                                IF items[i].id = editingId[1]
                                THEN withId(entry, editingId[1]) ELSE items[i]]
                /\ lastOp' = Op("edit", editingId[1])
           ELSE /\ items' = addFirst(withId(entry, now), items)
                /\ lastOp' = Op("add", now)
    /\ closeModal
    /\ storage' = persist(items')
    /\ UNCHANGED <<view, app, confirmDelete, now>>

\* handleStart(id)
handleStart(id) ==
    /\ items' = [i \in DOMAIN items |->
                    IF items[i].id = id THEN startItem(items[i], now) ELSE items[i]]
    /\ storage' = persist(items')
    /\ lastOp' = Op("start", id)
    /\ UNCHANGED <<view, app, formData, editingId, showModal, confirmDelete, now>>

\* handleFinish(id) without the test of the id: every entry is finished.
handleFinishAll(id) ==
    /\ items' = [i \in DOMAIN items |-> finishItem(items[i], now)]
    /\ storage' = persist(items')
    /\ lastOp' = Op("finish", id)
    /\ UNCHANGED <<view, app, formData, editingId, showModal, confirmDelete, now>>

\* handleFinish(id)
handleFinish(id) ==
    /\ items' = [i \in DOMAIN items |->
                    IF items[i].id = id THEN finishItem(items[i], now) ELSE items[i]]
    /\ storage' = persist(items')
    /\ lastOp' = Op("finish", id)
    /\ UNCHANGED <<view, app, formData, editingId, showModal, confirmDelete, now>>

\* handlePlanToggle(id, forceOn)
handlePlanToggle(id, forceOn) ==
    /\ items' = [i \in DOMAIN items |->
                    IF items[i].id = id THEN planToggleItem(items[i], forceOn, now)
                    ELSE items[i]]
    /\ storage' = persist(items')
    /\ lastOp' = Op(IF forceOn = Null THEN "toggle"
                    ELSE IF forceOn[1] THEN "planOn" ELSE "planOff", id)
    /\ UNCHANGED <<view, app, formData, editingId, showModal, confirmDelete, now>>

\* deleteItem(id) with no persist effect after it.
deleteItemUnsaved(id) ==
    /\ items' = removeId(items, id)
    /\ confirmDelete' = Null
    /\ lastOp' = Op("delete", id)
    /\ UNCHANGED <<view, app, formData, editingId, showModal, now, storage>>

\* deleteItem(id); setConfirmDelete(null)
deleteItem(id) ==
    /\ items' = removeId(items, id)
    /\ storage' = persist(items')
    /\ confirmDelete' = Null
    /\ lastOp' = Op("delete", id)
    /\ UNCHANGED <<view, app, formData, editingId, showModal, now>>

----------------------------------------------------------------------------
(* The user's steps *)

\* The Add Movie/Drama button: setShowModal(true).
OpenAdd ==
    /\ PageFree
    /\ Len(items) < MaxItems
    /\ showModal' = TRUE
    /\ lastOp' = NoOp
    /\ UNCHANGED <<view, app, items, formData, editingId, confirmDelete, storage, now>>

\* The edit button of a card of the library grid (the grid shows the entries
\* that are not planned).
OpenEdit ==
    /\ PageFree
    /\ \E i \in DOMAIN items :
          /\ items[i].status # "planned"
          /\ formData' = formOf(items[i])
          /\ editingId' = <<items[i].id>>
    /\ showModal' = TRUE
    /\ lastOp' = NoOp
    /\ UNCHANGED <<view, app, items, confirmDelete, storage, now>>

\* The title input's onChange.
SetTitle ==
    /\ showModal
    /\ \E t \in Titles : formData' = [formData EXCEPT !.title = t]
    /\ lastOp' = NoOp
    /\ UNCHANGED <<view, app, items, editingId, showModal, confirmDelete, storage, now>>

\* The form's Plan to Watch button.
FormPlanToggle ==
    /\ showModal
    /\ formData' = formPlanToggle(formData, now)
    /\ lastOp' = NoOp
    /\ UNCHANGED <<view, app, items, editingId, showModal, confirmDelete, storage, now>>

\* The Started input's onChange; the input is disabled while planToWatch.
SetStartDate ==
    /\ showModal
    /\ ~formData.planToWatch
    /\ \E d \in DateChoices \cup {NoDate} :
          formData' = [formData EXCEPT !.startDate = d, !.planToWatch = FALSE]
    /\ lastOp' = NoOp
    /\ UNCHANGED <<view, app, items, editingId, showModal, confirmDelete, storage, now>>

\* The Finished input's onChange; the input is disabled while planToWatch.
SetEndDate ==
    /\ showModal
    /\ ~formData.planToWatch
    /\ \E d \in DateChoices \cup {NoDate} :
          formData' = [formData EXCEPT !.endDate = d, !.planToWatch = FALSE]
    /\ lastOp' = NoOp
    /\ UNCHANGED <<view, app, items, editingId, showModal, confirmDelete, storage, now>>

\* The submit button with an invalid form: the browser shows its validation
\* message and fires no submit event, so handleSave does not run.
SubmitBlocked ==
    /\ showModal
    /\ ~titleValid(formData)
    /\ lastOp' = Op("blocked", 0)
    /\ UNCHANGED <<view, app, items, formData, editingId, showModal, confirmDelete, storage, now>>

\* The Discard button, or a click on the modal's backdrop.
Discard ==
    /\ showModal
    /\ closeModal
    /\ lastOp' = NoOp
    /\ UNCHANGED <<view, app, items, confirmDelete, storage, now>>

\* Start on a queued card of the grid, or Begin in the Plan to Watch strip.
ClickStart ==
    /\ PageFree
    /\ \E i \in DOMAIN items :
          /\ items[i].status \in {"queued", "planned"}
          /\ handleStart(items[i].id)

\* Finish on a card of the grid that is not finished, or in the strip.
ClickFinish ==
    /\ PageFree
    /\ \E i \in DOMAIN items :
          /\ items[i].status # "finished"
          /\ handleFinish(items[i].id)

\* The pin button of a card of the grid: handlePlanToggle(item.id, true).
ClickPin ==
    /\ PageFree
    /\ \E i \in DOMAIN items :
          /\ items[i].status # "planned"
          /\ handlePlanToggle(items[i].id, <<TRUE>>)

\* The remove button of the strip: handlePlanToggle(item.id, false).
ClickUnpin ==
    /\ PageFree
    /\ \E i \in DOMAIN items :
          /\ items[i].status = "planned"
          /\ handlePlanToggle(items[i].id, <<FALSE>>)

\* The delete button of a card of the grid: setConfirmDelete(item).
RequestDelete ==
    /\ PageFree
    /\ \E i \in DOMAIN items :
          /\ items[i].status # "planned"
          /\ confirmDelete' = <<items[i]>>
          /\ lastOp' = Op("request", items[i].id)
    /\ UNCHANGED <<view, app, items, formData, editingId, showModal, storage, now>>

\* Keep, or a click on the dialog's backdrop: setConfirmDelete(null).
KeepEntry ==
    /\ confirmDelete # Null
    /\ confirmDelete' = Null
    /\ lastOp' = Op("keep", confirmDelete[1].id)
    /\ UNCHANGED <<view, app, items, formData, editingId, showModal, storage, now>>

\* Delete in the dialog.
ConfirmDeletion ==
    /\ confirmDelete # Null
    /\ deleteItem(confirmDelete[1].id)

\* Time passes.
Tick ==
    /\ now < MaxNow
    /\ now' = now + 1
    /\ lastOp' = NoOp
    /\ UNCHANGED <<view, app, items, formData, editingId, showModal, confirmDelete, storage>>

\* The page is reloaded: App is constructed again from the stored blob, and
\* the persist effect of the first render writes the normalized list back.
Reload ==
    /\ formData' = initialForm
    /\ editingId' = Null
    /\ showModal' = FALSE
    /\ confirmDelete' = Null
    /\ IF loadThrows(storage)
       THEN /\ app' = "crashed"
            /\ items' = <<>>
            /\ storage' = storage
       ELSE /\ app' = "running"
            /\ items' = loadItems(storage, now)
            /\ storage' = persist(items')
    /\ filter' = "all"
    /\ genreFilter' = "all"
    /\ search' = <<>>
    /\ sortBy' = "date"
    /\ lastOp' = LoadOp(storage, items)
    /\ UNCHANGED now

Next ==
    \/ OpenAdd \/ OpenEdit \/ SetTitle \/ FormPlanToggle \/ SetStartDate \/ SetEndDate
    \/ handleSave \/ SubmitBlocked \/ Discard
    \/ ClickStart \/ ClickFinish \/ ClickPin \/ ClickUnpin
    \/ RequestDelete \/ KeepEntry \/ ConfirmDeletion
    \/ Tick \/ Reload

Spec == Init /\ [][Next]_vars

----------------------------------------------------------------------------
(* The handlers called on any entry of the store, whatever buttons the page
   shows for it; handlePlanToggle also with its default forceOn = null. *)

CallStart ==
    /\ PageFree
    /\ \E i \in DOMAIN items : handleStart(items[i].id)

CallFinish ==
    /\ PageFree
    /\ \E i \in DOMAIN items : handleFinish(items[i].id)

CallPlanToggle ==
    /\ PageFree
    /\ \E i \in DOMAIN items, forceOn \in {Null, <<TRUE>>, <<FALSE>>} :
          handlePlanToggle(items[i].id, forceOn)

NextHandlers ==
    \/ OpenAdd \/ OpenEdit \/ SetTitle \/ FormPlanToggle \/ SetStartDate \/ SetEndDate
    \/ handleSave \/ SubmitBlocked \/ Discard
    \/ CallStart \/ CallFinish \/ CallPlanToggle
    \/ RequestDelete \/ KeepEntry \/ ConfirmDeletion
    \/ Tick \/ Reload

SpecHandlers == Init /\ [][NextHandlers]_vars

----------------------------------------------------------------------------
(* Startup from an arbitrary stored list *)

\* The fields every saved record has.
SavedFull ==
    [ id : {1}, title : {<<"a">>}, rating : {3}, notes : {""}, genres : {<<>>},
      startDate : {NoDate, <<-1>>}, endDate : {NoDate, <<-1>>},
      planToWatch : BOOLEAN, status : Statuses \cup {"started"},
      isWatched : BOOLEAN, planAt : {Null, <<1>>} ]

\* The fields a record saved by an older version may lack.
LaterFields == {"planToWatch", "status", "isWatched", "planAt"}

\* The records that can be found in storage: every saved record, with any
\* of the later fields missing.
SavedItems ==
    { [k \in (DOMAIN r) \ missing |-> r[k]] : r \in SavedFull, missing \in SUBSET LaterFields }

\* The lists that can be found in storage.
SavedLists ==
    UNION { [1..n -> SavedItems] : n \in 0..MaxSaved }

\* First render with an arbitrary list under the storage key.
InitLoad ==
    /\ now = 1
    /\ \E list \in SavedLists : items = loadItems(persist(list), now)
    /\ formData = initialForm
    /\ editingId = Null
    /\ showModal = FALSE
    /\ confirmDelete = Null
    /\ viewInitial
    /\ storage = persist(items)
    /\ app = "running"
    /\ lastOp = LoadOp(storage, <<>>)

SpecLoad == InitLoad /\ [][Next]_vars

----------------------------------------------------------------------------
(* Ratings: startup from stored records with any rating, and the form's stars *)

\* The ratings found in stored records: one the stars can give, one they
\* cannot.
SavedRatings == {3, 9}

\* The scores of the five star buttons.
Scores == 1..5

\* The lists that can be found in storage, with any of the ratings.
RatedLists ==
    UNION { [1..n -> { [r EXCEPT !.rating = x] : r \in SavedFull, x \in SavedRatings }] :
              n \in 0..MaxSaved }

\* A star of the form: setFormData({...formData, rating: clamp5(val)}).
SetRating ==
    /\ showModal
    /\ \E score \in Scores : formData' = [formData EXCEPT !.rating = clamp5(clamp5(score))]
    /\ lastOp' = NoOp
    /\ UNCHANGED <<view, app, items, editingId, showModal, confirmDelete, storage, now>>

\* First render with a list of rated records under the storage key.
InitRated ==
    /\ now = 1
    /\ \E list \in RatedLists : items = loadItems(persist(list), now)
    /\ formData = initialForm
    /\ editingId = Null
    /\ showModal = FALSE
    /\ confirmDelete = Null
    /\ viewInitial
    /\ storage = persist(items)
    /\ app = "running"
    /\ lastOp = LoadOp(storage, <<>>)

NextRated == Next \/ SetRating

SpecRated == InitRated /\ [][NextRated]_vars

----------------------------------------------------------------------------
(* The projection (filteredItems) and the statistics (stats) *)

\* String.prototype.toLowerCase, one character and a whole string.
lowerChar(c) == IF c = "A" THEN "a" ELSE IF c = "B" THEN "b" ELSE c

toLowerCase(s) == [i \in DOMAIN s |-> lowerChar(s[i])]

\* String.prototype.includes: q occurs in s at some offset.
includes(s, q) ==
    \E k \in 0..(Len(s) - Len(q)) : SubSeq(s, k + 1, k + Len(q)) = q

\* Array.prototype.includes on an entry's genres.
hasGenre(genres, g) == \E i \in DOMAIN genres : genres[i] = g

\* matchesSearch with the case of the title kept.
matchesSearchExact(item, q) == includes(item.title, q)

matchesSearch(item, q) == includes(toLowerCase(item.title), toLowerCase(q))

matchesStatus(item, f) ==
    IF f = "all" THEN TRUE
    ELSE IF f = "finished" THEN item.status = "finished"
    ELSE IF f = "watching" THEN item.status = "watching"
    ELSE IF f = "planned" THEN item.status = "planned"
    ELSE item.status = "queued"

\* matchesGenre with 'all' taken as the name of a genre.
matchesGenreNoAll(item, g) == hasGenre(item.genres, g)

matchesGenre(item, g) == IF g = "all" THEN TRUE ELSE hasGenre(item.genres, g)

\* items.filter(...): a new array of the entries passing the three tests.
filterItems(list, q, f, g) ==
    SelectSeq(list, LAMBDA item :
        matchesSearch(item, q) /\ matchesStatus(item, f) /\ matchesGenre(item, g))

\* new Date(item.endDate || item.startDate || 0) as a number: the date's
\* midnight in clock ticks, or 0 (the epoch) with neither date.
dateValue(item) ==
    IF DateSet(item.endDate) THEN item.endDate[1] * TicksPerDay
    ELSE IF DateSet(item.startDate) THEN item.startDate[1] * TicksPerDay
    ELSE 0

\* item.planAt || 0
planValue(item) == IF NumSet(item.planAt) THEN item.planAt[1] ELSE 0

\* bucket with the queued entries ahead of the planned ones.
bucketQueuedFirst(item) ==
    IF item.status = "queued" THEN 0 ELSE IF item.status = "planned" THEN 1 ELSE 2

\* const bucket = (item) => ...
bucket(item) ==
    IF item.status = "planned" THEN 0 ELSE IF item.status = "queued" THEN 1 ELSE 2

\* Collation of the letters a, A, b, B: the letter decides first, then the
\* case, lower case before upper case.
letter(c) == IF lowerChar(c) = "a" THEN 1 ELSE 2

upper(c) == c # lowerChar(c)

RECURSIVE letterCompare(_, _)
letterCompare(s, t) ==
    IF s = <<>> THEN (IF t = <<>> THEN 0 ELSE -1)
    ELSE IF t = <<>> THEN 1
    ELSE IF letter(Head(s)) # letter(Head(t)) THEN letter(Head(s)) - letter(Head(t))
    ELSE letterCompare(Tail(s), Tail(t))

RECURSIVE caseCompare(_, _)
caseCompare(s, t) ==
    IF s = <<>> \/ t = <<>> THEN 0
    ELSE IF upper(Head(s)) # upper(Head(t)) THEN (IF upper(Head(s)) THEN 1 ELSE -1)
    ELSE caseCompare(Tail(s), Tail(t))

\* String.prototype.localeCompare
localeCompare(s, t) ==
    IF letterCompare(s, t) # 0 THEN letterCompare(s, t) ELSE caseCompare(s, t)

\* The comparator handed to sort.
compare(a, b, key) ==
    IF key = "rating" THEN b.rating - a.rating
    ELSE IF key = "title" THEN localeCompare(a.title, b.title)
    ELSE IF key = "plan"
         THEN IF bucket(a) # bucket(b) THEN bucket(a) - bucket(b)
              ELSE IF bucket(a) < 2 THEN planValue(b) - planValue(a)
              ELSE dateValue(a) - dateValue(b)
    ELSE dateValue(a) - dateValue(b)

\* Array.prototype.sort is stable: an entry goes behind every entry that
\* does not compare greater than it.
RECURSIVE insertLast(_, _, _)
insertLast(sorted, x, key) ==
    IF sorted = <<>> THEN <<x>>
    ELSE LET e == sorted[Len(sorted)]
         IN  IF compare(e, x, key) <= 0
             THEN Append(sorted, x)
             ELSE Append(insertLast(SubSeq(sorted, 1, Len(sorted) - 1), x, key), e)

RECURSIVE sortItems(_, _)
sortItems(list, key) ==
    IF list = <<>> THEN <<>>
    ELSE insertLast(sortItems(SubSeq(list, 1, Len(list) - 1), key), list[Len(list)], key)

\* useMemo(() => items.filter(...).sort(...), [items, filter, genreFilter, search, sortBy])
filteredItems == sortItems(filterItems(items, search, filter, genreFilter), sortBy)

\* useMemo(() => filteredItems.filter(i => i.status === 'planned'), [filteredItems])
plannedItems == SelectSeq(filteredItems, LAMBDA i : i.status = "planned")

\* activeItems with no test of the status.
activeItemsAll == filteredItems

\* useMemo(() => filteredItems.filter(i => i.status !== 'planned'), [filteredItems])
activeItems == SelectSeq(filteredItems, LAMBDA i : i.status # "planned")

\* items.filter(i => i.status === st).length
countStatus(list, st) == Cardinality({ i \in DOMAIN list : list[i].status = st })

\* Math.round((finished / total) * 100) for total > 0: the nearest integer,
\* a half rounded up.
percentOf(finished, total) == (200 * finished + total) \div (2 * total)

\* The stats object computed on the entries the filter bar lets through.
statsOfShown(list) ==
    LET shown == filterItems(list, search, filter, genreFilter)
    IN  [ total   |-> Len(shown),
          watched |-> countStatus(shown, "finished"),
          percent |-> IF Len(shown) # 0
                      THEN percentOf(countStatus(shown, "finished"), Len(shown))
                      ELSE 0,
          started |-> countStatus(shown, "watching"),
          planned |-> countStatus(shown, "planned") ]

\* The stats object computed on a list.
statsOf(list) ==
    [ total   |-> Len(list),
      watched |-> countStatus(list, "finished"),
      percent |-> IF Len(list) # 0
                  THEN percentOf(countStatus(list, "finished"), Len(list))
                  ELSE 0,
      started |-> countStatus(list, "watching"),
      planned |-> countStatus(list, "planned") ]

\* const stats = {...}, computed from items on every render.
stats == statsOf(items)

\* The options of the status select, of the genre select (two of GENRES: one
\* the entries use, one they do not), the texts typed into the search box,
\* and the options of the sort select.
StatusFilters == {"all", "finished", "watching", "queued", "planned"}

GenreFilters == {"all", "Drama", "Horror"}

SearchTexts == {<<>>, <<"a">>, <<"B">>}

SortKeys == {"date", "rating", "title", "plan"}

\* The status select's onChange.
SetFilter ==
    /\ PageFree
    /\ \E f \in StatusFilters : filter' = f
    /\ lastOp' = Op("view", 0)
    /\ UNCHANGED <<app, items, formData, editingId, showModal, confirmDelete, storage, now,
                   genreFilter, search, sortBy>>

\* The genre select's onChange.
SetGenreFilter ==
    /\ PageFree
    /\ \E g \in GenreFilters : genreFilter' = g
    /\ lastOp' = Op("view", 0)
    /\ UNCHANGED <<app, items, formData, editingId, showModal, confirmDelete, storage, now,
                   filter, search, sortBy>>

\* The search box's onChange.
SetSearch ==
    /\ PageFree
    /\ \E q \in SearchTexts : search' = q
    /\ lastOp' = Op("view", 0)
    /\ UNCHANGED <<app, items, formData, editingId, showModal, confirmDelete, storage, now,
                   filter, genreFilter, sortBy>>

\* The sort select's onChange with the sort done on items itself.
SetSortBySortsStore ==
    /\ PageFree
    /\ \E k \in SortKeys :
          /\ sortBy' = k
          /\ items' = sortItems(items, k)
    /\ storage' = persist(items')
    /\ lastOp' = Op("view", 0)
    /\ UNCHANGED <<app, formData, editingId, showModal, confirmDelete, now,
                   filter, genreFilter, search>>

\* The sort select's onChange.
SetSortBy ==
    /\ PageFree
    /\ \E k \in SortKeys : sortBy' = k
    /\ lastOp' = Op("view", 0)
    /\ UNCHANGED <<app, items, formData, editingId, showModal, confirmDelete, storage, now,
                   filter, genreFilter, search>>

\* The forms saved to build the lists the view is computed on: a title and
\* genres, with the dates and the plan flag of each of the four statuses.
ViewForms ==
    { [initialForm EXCEPT !.title = tg[1], !.genres = tg[2],
                          !.startDate = d[1], !.endDate = d[2], !.planToWatch = d[3]] :
        tg \in { <<(<<"a">>), <<>>>>, <<(<<"A", "b">>), <<"Action", "Drama">>>> },
        d \in { <<NoDate, NoDate, FALSE>>, <<(<<-1>>), NoDate, FALSE>>,
                <<(<<-1>>), <<0>>, FALSE>>, <<NoDate, NoDate, TRUE>> } }

\* Lists of up to MaxShown entries, the newest first, with the clock values
\* of their saves as ids.  The planned ones were put on the plan after all
\* were added, the newest first, so the oldest has the latest planAt.
ViewLists ==
    UNION { { [i \in 1..n |-> withId(saveEntry(f[i], n + i), n + 1 - i)] :
                f \in [1..n -> ViewForms] } : n \in 0..MaxShown }

InitView ==
    /\ now = 2 * MaxShown
    /\ items \in ViewLists
    /\ formData = initialForm
    /\ editingId = Null
    /\ showModal = FALSE
    /\ confirmDelete = Null
    /\ viewInitial
    /\ storage = persist(items)
    /\ app = "running"
    /\ lastOp = NoOp

NextView == SetFilter \/ SetGenreFilter \/ SetSearch \/ SetSortBy

SpecView == InitView /\ [][NextView]_vars

----------------------------------------------------------------------------
(* The store as a list of several entries: entries are added with the form's
   initial dates and plan flag, and changed by the buttons of their cards. *)

\* The Add Movie/Drama button.
OpenAddMore ==
    /\ PageFree
    /\ Len(items) < MaxEntries
    /\ showModal' = TRUE
    /\ lastOp' = NoOp
    /\ UNCHANGED <<view, app, items, formData, editingId, confirmDelete, storage, now>>

NextList ==
    \/ OpenAddMore \/ OpenEdit \/ SetTitle \/ handleSave \/ Discard
    \/ ClickStart \/ ClickFinish \/ ClickPin \/ ClickUnpin
    \/ RequestDelete \/ KeepEntry \/ ConfirmDeletion
    \/ SetSortBy \/ Tick

SpecList == Init /\ [][NextList]_vars

----------------------------------------------------------------------------
(* The handlers called with any id, of an entry of the store or of none *)

\* The ids a handler can be called with: every clock value (the ids of the
\* entries) and 0, the id of no entry.
CallIds == 0..MaxNow

StartId ==
    /\ PageFree
    /\ \E id \in CallIds : handleStart(id)

FinishId ==
    /\ PageFree
    /\ \E id \in CallIds : handleFinish(id)

PlanToggleId ==
    /\ PageFree
    /\ \E id \in CallIds, forceOn \in {Null, <<TRUE>>, <<FALSE>>} :
          handlePlanToggle(id, forceOn)

NextIds ==
    \/ OpenAddMore \/ OpenEdit \/ SetTitle \/ handleSave \/ Discard
    \/ StartId \/ FinishId \/ PlanToggleId
    \/ Tick

SpecIds == Init /\ [][NextIds]_vars

----------------------------------------------------------------------------
(* Startup from any value under the storage key *)

\* The values getItem can return: nothing, a text that is no array, or the
\* text of a list of records.
StoredValues ==
    {Null} \cup { <<x>> : x \in OtherTexts } \cup { persist(list) : list \in SavedLists }

\* First render with an arbitrary value under the storage key.  When the
\* initializer throws, React unmounts the tree: no state, no effect, no page.
InitStartup ==
    /\ now = 1
    /\ \E saved \in StoredValues :
          IF loadThrows(saved)
          THEN /\ app = "crashed"
               /\ items = <<>>
               /\ storage = saved
               /\ lastOp = LoadOp(saved, <<>>)
          ELSE /\ app = "running"
               /\ items = loadItems(saved, now)
               /\ storage = persist(items)
               /\ lastOp = LoadOp(saved, <<>>)
    /\ formData = initialForm
    /\ editingId = Null
    /\ showModal = FALSE
    /\ confirmDelete = Null
    /\ viewInitial

SpecStartup == InitStartup /\ [][Next]_vars

----------------------------------------------------------------------------
(* Properties *)

\* The entries the last handler was called on: positions whose id is the
\* handler's argument (handleSave's add has none: the entry is new).
Targets == { i \in DOMAIN items : i \in DOMAIN lastOp.before /\ lastOp.before[i].id = lastOp.id }

\* Every date an entry can hold within the bounds.
AllDates == {NoDate} \cup DateChoices \cup { todayISO(t) : t \in 1..MaxNow }

\* C1: from an empty store, after any sequence of add, edit-save, Start,
\* Finish, plan-toggle and delete, every entry's status equals deriveStatus of
\* its own planToWatch, startDate and endDate.
C1_StatusIsDerived ==
    \A i \in DOMAIN items : items[i].status = deriveStatus(items[i])

\* C1 witness: Begin has just moved a planned entry that carried an end date
\* to watching.
C1_Witness ==
    /\ lastOp.op = "start"
    /\ \E i \in Targets :
          /\ lastOp.before[i].status = "planned"
          /\ DateSet(lastOp.before[i].endDate)
          /\ items[i].status = "watching"

\* The rule table of deriveStatus: <<planToWatch, startDate set, endDate set, status>>.
StatusTable ==
    { <<TRUE,  FALSE, FALSE, "planned">>,  <<TRUE,  FALSE, TRUE,  "planned">>,
      <<TRUE,  TRUE,  FALSE, "planned">>,  <<TRUE,  TRUE,  TRUE,  "planned">>,
      <<FALSE, FALSE, TRUE,  "finished">>, <<FALSE, TRUE,  TRUE,  "finished">>,
      <<FALSE, TRUE,  FALSE, "watching">>, <<FALSE, FALSE, FALSE, "queued">> }

\* The row of the table for data d.
TableStatus(d) ==
    CHOOSE st \in Statuses :
        <<d.planToWatch, d.startDate # NoDate, d.endDate # NoDate, st>> \in StatusTable

\* C2: for every combination of planToWatch, startDate (set/unset) and endDate
\* (set/unset), deriveStatus returns planned when planToWatch; otherwise
\* finished when endDate is set, even if startDate is unset; otherwise watching
\* when startDate is set; otherwise queued.  Checked on every combination of
\* the bounded inputs, on every entry of the store and on the form.
C2_DeriveStatusTable ==
    /\ \A d \in [planToWatch : BOOLEAN, startDate : AllDates, endDate : AllDates] :
          deriveStatus(d) = TableStatus(d)
    /\ \A i \in DOMAIN items : deriveStatus(items[i]) = TableStatus(items[i])
    /\ deriveStatus(formData) = TableStatus(formData)

\* C2 witness: the store holds an entry saved with an end date and no start
\* date, and its status, set by deriveStatus, is finished.
C2_Witness ==
    /\ lastOp.op = "add"
    /\ \E i \in DOMAIN items :
          /\ ~items[i].planToWatch
          /\ items[i].startDate = NoDate
          /\ items[i].endDate # NoDate
          /\ items[i].status = "finished"

\* C3: from an empty store, after any sequence of form edits/saves and quick
\* actions, no entry has planToWatch = true together with a non-empty
\* startDate or a non-empty endDate.
C3_PlannedHasNoDates ==
    \A i \in DOMAIN items :
        items[i].planToWatch => (items[i].startDate = NoDate /\ items[i].endDate = NoDate)

\* C4: Finish on an existing entry in any prior state leaves it with status
\* finished, isWatched true, endDate today, a non-empty startDate (the previous
\* one if it was set, otherwise today), planToWatch false and planAt null.
C4_FinishResult ==
    lastOp.op = "finish" =>
        \A i \in Targets :
            LET old == lastOp.before[i]
                new == items[i]
            IN  /\ new.status = "finished"
                /\ new.isWatched = TRUE
                /\ new.endDate = todayISO(now)
                /\ new.startDate # NoDate
                /\ new.startDate = (IF old.startDate # NoDate THEN old.startDate
                                    ELSE todayISO(now))
                /\ new.planToWatch = FALSE
                /\ new.planAt = Null

\* C4 witness: Finish has just run on an entry that was already finished, on
\* a later day than its start.
C4_Witness ==
    /\ lastOp.op = "finish"
    /\ \E i \in Targets :
          /\ lastOp.before[i].status = "finished"
          /\ items[i].startDate # todayISO(now)
          /\ items[i].endDate = todayISO(now)

\* C5: Start never overwrites an existing start date, whatever day it is
\* invoked on; and Start applied again, at the same or any later time, to an
\* entry Start has just been applied to leaves the entry as it is.
C5_StartKeepsStartDate ==
    lastOp.op = "start" =>
        \A i \in Targets :
            /\ lastOp.before[i].startDate # NoDate
                  => items[i].startDate = lastOp.before[i].startDate
            /\ \A t \in now..MaxNow : startItem(items[i], t) = items[i]

\* C5 witness: Start has just run on an entry whose start date was set on
\* another day than today, and the date is still that day.
C5_Witness ==
    /\ lastOp.op = "start"
    /\ \E i \in Targets :
          /\ lastOp.before[i].startDate # NoDate
          /\ lastOp.before[i].startDate # todayISO(now)
          /\ items[i].startDate = lastOp.before[i].startDate

\* C6: Start on an existing entry in any prior state leaves it with a
\* non-empty startDate (today if it was unset), endDate empty, planToWatch
\* false, planAt null, status watching and isWatched false; an entry that had
\* an endDate loses it.
C6_StartResult ==
    lastOp.op = "start" =>
        \A i \in Targets :
            LET old == lastOp.before[i]
                new == items[i]
            IN  /\ new.startDate # NoDate
                /\ old.startDate = NoDate => new.startDate = todayISO(now)
                /\ new.endDate = NoDate
                /\ new.planToWatch = FALSE
                /\ new.planAt = Null
                /\ new.status = "watching"
                /\ new.isWatched = FALSE

\* C6 witness: Start has just run on a finished entry, which lost its end date.
C6_Witness ==
    /\ lastOp.op = "start"
    /\ \E i \in Targets :
          /\ lastOp.before[i].status = "finished"
          /\ lastOp.before[i].endDate # NoDate
          /\ items[i].endDate = NoDate

\* The plan flag handlePlanToggle was asked for on the entry `old`.
PlanAsked(old) ==
    IF lastOp.op = "toggle" THEN ~old.planToWatch ELSE lastOp.op = "planOn"

\* C7: plan-toggle on an entry: enabling sets planToWatch true, planAt to a
\* non-null timestamp and status planned; disabling sets planToWatch false,
\* planAt null and status to the value re-derived from the entry's dates
\* (finished if endDate is set, else watching if startDate is set, else
\* queued), with isWatched updated to match.
C7_PlanToggleResult ==
    lastOp.op \in {"planOn", "planOff", "toggle"} =>
        \A i \in Targets :
            LET old == lastOp.before[i]
                new == items[i]
            IN  IF PlanAsked(old)
                THEN /\ new.planToWatch = TRUE
                     /\ new.planAt # Null
                     /\ new.status = "planned"
                ELSE /\ new.planToWatch = FALSE
                     /\ new.planAt = Null
                     /\ new.status = (IF new.endDate # NoDate THEN "finished"
                                      ELSE IF new.startDate # NoDate THEN "watching"
                                      ELSE "queued")
                     /\ new.isWatched = (new.status = "finished")

\* C7 witness: the plan flag has just been taken off a planned entry that
\* carries an end date, and the entry is finished and watched again.
C7_Witness ==
    /\ lastOp.op = "planOff"
    /\ \E i \in Targets :
          /\ lastOp.before[i].status = "planned"
          /\ ~lastOp.before[i].isWatched
          /\ items[i].status = "finished"
          /\ items[i].isWatched

\* C8: in every reachable state of the store, also right after the startup
\* load and normalization of arbitrary stored records, every entry has
\* isWatched = (status = 'finished').
C8_WatchedIffFinished ==
    \A i \in DOMAIN items : items[i].isWatched = (items[i].status = "finished")

\* C8 witness: the startup load has just produced an entry that is not
\* finished although it carries an end date (its stored status was kept), and
\* that is not watched.
C8_Witness ==
    /\ lastOp.op = "load"
    /\ lastOp.before = <<>>
    /\ \E i \in DOMAIN items :
          /\ items[i].endDate # NoDate
          /\ items[i].status = "queued"
          /\ ~items[i].isWatched

\* The fields of an entry that the round trip must give back.
SemanticFields ==
    {"id", "title", "startDate", "endDate", "rating", "notes", "genres", "planToWatch", "planAt"}

\* C9: for every store reachable from an empty store, persisting the list,
\* reloading it (now or at any later time) and normalizing each record gives a
\* list with the same entries in the same order, each with the same id, title,
\* startDate, endDate, rating, notes, genres, planToWatch and planAt, and with
\* status equal to deriveStatus of the reloaded fields.
C9_RoundTrip ==
    \A t \in now..MaxNow :
        LET reloaded == loadItems(persist(items), t)
        IN  /\ Len(reloaded) = Len(items)
            /\ \A i \in DOMAIN items :
                  /\ \A k \in SemanticFields : reloaded[i][k] = items[i][k]
                  /\ reloaded[i].status = deriveStatus(reloaded[i])

\* C9 witness: the page has just been reloaded with a planned entry in the
\* store that was planned at an earlier time, and the store is what it was.
C9_Witness ==
    /\ lastOp.op = "load"
    /\ lastOp.before # <<>>
    /\ items = lastOp.before
    /\ \E i \in DOMAIN items :
          /\ items[i].planToWatch
          /\ items[i].planAt # <<now>>

\* C10: for every stored record, with or without a stored status and for any
\* combination of stored status, isWatched, planToWatch, startDate and endDate,
\* the status produced by normalizeItem at startup equals deriveStatus of the
\* normalized record's planToWatch, startDate and endDate.
C10_LoadedStatusIsDerived ==
    lastOp.op = "load" =>
        \A i \in DOMAIN items : items[i].status = deriveStatus(items[i])

\* C11: startup never crashes on bad persisted data: when the value under the
\* storage key is absent, is not parseable as JSON, or parses to something
\* other than an array, the store starts as the empty list and the page is
\* in its normal running state.
C11_StartupFallsBack ==
    (lastOp.op = "load" /\ lastOp.found # "array") =>
        /\ app = "running"
        /\ items = <<>>

\* C12: a submit with an empty title is rejected before any mutation: the
\* store and the persisted text are what they were, and from an empty store
\* every entry has a non-empty title after any adds and edit-saves.
C12_EmptyTitleRejected ==
    /\ \A i \in DOMAIN items : items[i].title # <<>>
    /\ lastOp.op = "blocked" =>
          /\ items = lastOp.before
          /\ storage = persist(lastOp.before)

\* C12 witness: a submit of the edit form of a stored entry, with the title
\* cleared, has just been blocked.
C12_Witness ==
    /\ lastOp.op = "blocked"
    /\ showModal
    /\ editingId # Null
    /\ formData.title = <<>>
    /\ items # <<>>

\* C13: entries are uniquely identified by id: from an empty store, after any
\* adds, edit-saves, quick actions and deletes, no two entries of the list
\* share an id, also when the clock does not advance between two adds.
C13_UniqueIds ==
    \A i, j \in DOMAIN items : items[i].id = items[j].id => i = j

\* C14: the persisted blob always follows the store: after every mutation
\* (add, edit-save, Start, Finish, plan-toggle, delete) the value under the
\* storage key is the serialization of the whole current list, no entry
\* missing and no stale entry remaining.
C14_BlobFollowsStore ==
    app = "running" =>
        /\ storage = persist(items)
        /\ storage[1].kind = "array"
        /\ Len(storage[1].elems) = Len(items)
        /\ \A i \in DOMAIN items :
              JSONparse(storage[1].elems)[i].id = items[i].id

\* C14 witness: one of two entries has just been deleted, and the stored text
\* holds the one that is left.
C14_Witness ==
    /\ lastOp.op = "delete"
    /\ Len(lastOp.before) = 2
    /\ Len(items) = 1
    /\ Len(storage[1].elems) = 1

\* The positions of the store whose entry is shown in the projection.
Shown == { i \in DOMAIN items : \E j \in DOMAIN filteredItems : filteredItems[j] = items[i] }

\* C15: when the selected genre is in no entry's genres the projection is
\* empty, and when the genre filter is 'all' the projection holds exactly the
\* entries that pass the search and status filters.
C15_GenreFilter ==
    /\ (genreFilter # "all" /\ \A i \in DOMAIN items :
                                  \A k \in DOMAIN items[i].genres :
                                      items[i].genres[k] # genreFilter)
          => filteredItems = <<>>
    /\ genreFilter = "all" =>
          LET passing == { i \in DOMAIN items :
                              /\ includes(toLowerCase(items[i].title), toLowerCase(search))
                              /\ filter \in {"all", items[i].status} }
          IN  /\ Shown = passing
              /\ Len(filteredItems) = Cardinality(passing)

\* C15 witness: with no search text and every status shown, the store holds
\* entries, some with genres, and the selected genre is none of theirs.
C15_Witness ==
    /\ genreFilter = "Horror"
    /\ search = <<>>
    /\ filter = "all"
    /\ \E i \in DOMAIN items : items[i].genres # <<>>
    /\ filteredItems = <<>>

\* The positions of the store whose entry has the given status.
WithStatus(st) == { i \in DOMAIN items : items[i].status = st }

C20_ProjectionIffFilters ==
    /\ \A i \in DOMAIN items :
          LET inSearch == \E k \in 0..(Len(items[i].title) - Len(search)) :
                             \A c \in 1..Len(search) :
                                 lowerChar(items[i].title[k + c]) = lowerChar(search[c])
              inStatus == filter = "all" \/ items[i].status = filter
              inGenre  == genreFilter = "all"
                          \/ \E g \in DOMAIN items[i].genres : items[i].genres[g] = genreFilter
              copies   == { j \in DOMAIN filteredItems : filteredItems[j] = items[i] }
          IN  Cardinality(copies) = IF inSearch /\ inStatus /\ inGenre THEN 1 ELSE 0
    /\ \A j \in DOMAIN filteredItems : \E i \in DOMAIN items : items[i] = filteredItems[j]

\* C20 witness: sorted by title, with a search text in the other case, a
\* status and a genre selected, one of two entries is shown and one is not.
C20_Witness ==
    /\ sortBy = "title"
    /\ search = <<"B">>
    /\ filter = "finished"
    /\ genreFilter = "Drama"
    /\ Len(items) = 2
    /\ Len(filteredItems) = 1
    /\ filteredItems[1].title = <<"A", "b">>

\* The ids of the entries of a list.
IdsOf(list) == { list[i].id : i \in DOMAIN list }

\* C17: deletion happens only by explicit confirmation: a step removes an
\* entry only if it is Delete in the dialog raised for an entry with that id;
\* raising the request, Keep and dismissing the dialog leave the store and
\* the stored text unchanged; a confirmed delete removes exactly the entries
\* whose id is the requested id.
C17_DeleteOnlyConfirmed ==
    [][ /\ ~(IdsOf(items) \subseteq IdsOf(items')) => lastOp'.op = "delete"
        /\ lastOp'.op = "delete" =>
              /\ confirmDelete # Null
              /\ confirmDelete' = Null
              /\ lastOp'.id = confirmDelete[1].id
              /\ \E i \in DOMAIN items : items[i] = confirmDelete[1]
              /\ Len(items') = Cardinality({ i \in DOMAIN items :
                                               items[i].id # confirmDelete[1].id })
              /\ \A i \in DOMAIN items' : items'[i].id # confirmDelete[1].id
              /\ \A i \in DOMAIN items :
                    items[i].id # confirmDelete[1].id =>
                        \E j \in DOMAIN items' : items'[j] = items[i]
        /\ lastOp'.op \in {"request", "keep"} =>
              /\ items' = items
              /\ storage' = storage
    ]_vars

\* C17 witness: of two entries with different ids, the older one has just
\* been deleted on confirmation and the newer one is all that is left.
C17_Witness ==
    /\ lastOp.op = "delete"
    /\ Len(lastOp.before) = 2
    /\ lastOp.before[2].id = lastOp.id
    /\ lastOp.before[1].id # lastOp.id
    /\ items = <<lastOp.before[1]>>
    /\ confirmDelete = Null

C19_FormPlanAndDates ==
    [][ /\ (showModal /\ ~formData.planToWatch /\ formData'.planToWatch) =>
              /\ formData'.startDate = NoDate
              /\ formData'.endDate = NoDate
              /\ formData'.planAt # Null
              /\ formData'.planAt[1] \in 1..MaxNow
        /\ (showModal /\ showModal' /\ formData'.planToWatch = formData.planToWatch
                /\ (formData'.startDate # formData.startDate
                       \/ formData'.endDate # formData.endDate)) =>
              ~formData'.planToWatch
        /\ (lastOp'.op \in {"add", "edit"} /\ ~formData.planToWatch) =>
              \A i \in DOMAIN items' :
                  (IF lastOp'.op = "add" THEN i = 1 ELSE items'[i].id = lastOp'.id) =>
                      /\ ~items'[i].planToWatch
                      /\ items'[i].planAt = Null
                      /\ items'[i].status # "planned"
    ]_vars

\* C19 witness: in the edit form of an entry that has a start date, Plan to
\* Watch has been turned on: the form is planned at the current time and its
\* dates are empty.
C19_Witness ==
    /\ showModal
    /\ editingId # Null
    /\ \E i \in DOMAIN items :
          /\ items[i].id = editingId[1]
          /\ items[i].startDate # NoDate
          /\ ~items[i].planToWatch
    /\ formData.planToWatch
    /\ formData.planAt = <<now>>
    /\ formData.startDate = NoDate
    /\ formData.endDate = NoDate

\* The date an entry is ordered by: its end date, else its start date (in
\* days; entries without either have none).
HasDay(item) == item.endDate # NoDate \/ item.startDate # NoDate

DayOf(item) == IF item.endDate # NoDate THEN item.endDate[1] ELSE item.startDate[1]

\* C21: under the 'plan' sort key every planned entry stands before every
\* queued entry and every queued entry before every watching or finished
\* entry; planned entries are ordered by planAt descending; watching and
\* finished entries are ordered ascending by end date, else start date.
C21_PlanSort ==
    sortBy = "plan" =>
        \A j, k \in DOMAIN filteredItems :
            j < k =>
                LET a == filteredItems[j]
                    b == filteredItems[k]
                IN  /\ b.status = "planned" => a.status = "planned"
                    /\ b.status = "queued" => a.status \in {"planned", "queued"}
                    /\ (a.status = "planned" /\ b.status = "planned") =>
                          a.planAt[1] >= b.planAt[1]
                    /\ (a.status \in {"watching", "finished"}
                           /\ b.status \in {"watching", "finished"}) =>
                          DayOf(a) <= DayOf(b)

\* C21 witness: two planned entries are shown under the 'plan' sort key, the
\* one planned later first, which is the older one of the store.
C21_Witness ==
    /\ sortBy = "plan"
    /\ Len(items) = 2
    /\ Len(filteredItems) = 2
    /\ items[1].status = "planned"
    /\ items[2].status = "planned"
    /\ items[1].planAt[1] < items[2].planAt[1]
    /\ filteredItems[1] = items[2]

\* The position in the store of an entry of the projection (ids are distinct
\* in the lists the view is computed on).
StorePos(item) == CHOOSE i \in DOMAIN items : items[i].id = item.id

\* C22: under the default 'date' sort key the projection is ordered oldest
\* first by end date, else start date; entries with neither date count as
\* having the earliest possible date; entries with equal keys keep their
\* store order.
C22_DateSort ==
    sortBy = "date" =>
        \A j, k \in DOMAIN filteredItems :
            j < k =>
                LET a == filteredItems[j]
                    b == filteredItems[k]
                IN  /\ ~HasDay(b) => ~HasDay(a)
                    /\ (HasDay(a) /\ HasDay(b)) => DayOf(a) <= DayOf(b)
                    /\ ((HasDay(a) /\ HasDay(b) /\ DayOf(a) = DayOf(b))
                           \/ (~HasDay(a) /\ ~HasDay(b))) =>
                          StorePos(a) < StorePos(b)

\* The positions of the projection at which a list's entries stand, in the
\* list's order (the entries of the projection are pairwise different).
PosIn(list) == [j \in DOMAIN list |-> CHOOSE p \in DOMAIN filteredItems : filteredItems[p] = list[j]]

\* C23: the projection is partitioned into a planned and an active subset:
\* the two are disjoint, every projected entry is in exactly one of them,
\* planned iff its status is 'planned', and each subset keeps the relative
\* order of the projection.
C23_PlannedActivePartition ==
    LET inPlanned(e) == \E j \in DOMAIN plannedItems : plannedItems[j] = e
        inActive(e)  == \E j \in DOMAIN activeItems : activeItems[j] = e
    IN  /\ \A p \in DOMAIN filteredItems :
              /\ inPlanned(filteredItems[p]) <=> filteredItems[p].status = "planned"
              /\ inActive(filteredItems[p]) <=> ~inPlanned(filteredItems[p])
        /\ \A j \in DOMAIN plannedItems :
              \E p \in DOMAIN filteredItems : filteredItems[p] = plannedItems[j]
        /\ \A j \in DOMAIN activeItems :
              \E p \in DOMAIN filteredItems : filteredItems[p] = activeItems[j]
        /\ Len(plannedItems) + Len(activeItems) = Len(filteredItems)
        /\ \A j, k \in DOMAIN plannedItems :
              j < k => PosIn(plannedItems)[j] < PosIn(plannedItems)[k]
        /\ \A j, k \in DOMAIN activeItems :
              j < k => PosIn(activeItems)[j] < PosIn(activeItems)[k]

\* C23 witness: sorted by title, the projection shows a planned entry behind
\* an active one; each subset holds one of them.
C23_Witness ==
    /\ sortBy = "title"
    /\ Len(filteredItems) = 2
    /\ filteredItems[1].status = "finished"
    /\ filteredItems[2].status = "planned"
    /\ plannedItems = <<filteredItems[2]>>
    /\ activeItems = <<filteredItems[1]>>

\* C24: every entry of the store has an integer rating between 0 and 5, after
\* the startup load of arbitrary persisted records and after any form rating
\* changes, adds and edit-saves.
C24_RatingInRange ==
    \A i \in DOMAIN items : items[i].rating \in 0..5

\* C25: changing the view controls (search text, status filter, genre filter,
\* sort key) never changes the store, the persisted blob or the statistics;
\* the projection is the one computed from the unchanged entries and the four
\* control values.
C25_ViewChangesNothing ==
    lastOp.op = "view" =>
        /\ items = lastOp.before
        /\ storage = persist(lastOp.before)
        /\ stats = statsOf(lastOp.before)
        /\ filteredItems =
              sortItems(filterItems(lastOp.before, search, filter, genreFilter), sortBy)

\* C25 witness: the sort key has been set to 'title' and a search text typed;
\* the projection shows the two entries of the store in the other order.
C25_Witness ==
    /\ lastOp.op = "view"
    /\ sortBy = "title"
    /\ search = <<"a">>
    /\ Len(items) = 2
    /\ filteredItems = <<items[2], items[1]>>
    /\ stats.total = 2

\* C26: in every state reachable from an empty store, each entry has
\* planAt != null iff planToWatch = true iff status = 'planned'.
C26_PlanFieldsAgree ==
    \A i \in DOMAIN items :
        /\ (items[i].planAt # Null) <=> items[i].planToWatch
        /\ items[i].planToWatch <=> (items[i].status = "planned")

\* C26 witness: the plan flag has just been taken off an entry with a start
\* date: it is watching, not planned, and has no planAt.
C26_Witness ==
    /\ lastOp.op = "planOff"
    /\ \E i \in DOMAIN items :
          /\ items[i].id = lastOp.id
          /\ lastOp.before[i].planAt # Null
          /\ lastOp.before[i].status = "planned"
          /\ items[i].planAt = Null
          /\ ~items[i].planToWatch
          /\ items[i].status = "watching"

\* C27: for an entry that is not planned, forcing Plan to Watch on and then
\* forcing it off returns the entry to exactly its earlier state (dates,
\* status, isWatched, planToWatch = false, planAt = null) and leaves the rest
\* of the store unchanged.  Stated in the state between the two calls: the
\* store the second call produces, at any later time, is the store the first
\* call was made on.
C27_PlanRoundTrip ==
    lastOp.op = "planOn" =>
        \A t \in now..MaxNow :
            LET after == [i \in DOMAIN items |->
                            IF items[i].id = lastOp.id
                            THEN planToggleItem(items[i], <<FALSE>>, t)
                            ELSE items[i]]
            IN  /\ Len(after) = Len(lastOp.before)
                /\ \A i \in DOMAIN after :
                      /\ lastOp.before[i].id # lastOp.id => after[i] = lastOp.before[i]
                      /\ (lastOp.before[i].id = lastOp.id
                             /\ lastOp.before[i].status # "planned") =>
                            /\ after[i] = lastOp.before[i]
                            /\ ~after[i].planToWatch
                            /\ after[i].planAt = Null

\* C27 witness: of two entries with different ids, the finished one has just
\* been put on the plan; it keeps its dates and is planned.
C27_Witness ==
    /\ lastOp.op = "planOn"
    /\ Len(items) = 2
    /\ \E i, j \in DOMAIN items :
          /\ items[i].id = lastOp.id
          /\ items[j].id # lastOp.id
          /\ lastOp.before[i].status = "finished"
          /\ items[i].status = "planned"
          /\ items[i].endDate # NoDate

\* C28: Start, Finish, plan-toggle and edit-save on id X never change the
\* number of entries, any entry whose id differs from X, or the id of the
\* target; Start, Finish and plan-toggle also leave the target's title,
\* rating, notes and genres unchanged; when no entry has id X the store is
\* unchanged.
C28_OnlyTargetChanges ==
    lastOp.op \in {"start", "finish", "toggle", "planOn", "planOff", "edit"} =>
        /\ Len(items) = Len(lastOp.before)
        /\ \A i \in DOMAIN items :
              /\ items[i].id = lastOp.before[i].id
              /\ lastOp.before[i].id # lastOp.id => items[i] = lastOp.before[i]
              /\ lastOp.op # "edit" =>
                    /\ items[i].title = lastOp.before[i].title
                    /\ items[i].rating = lastOp.before[i].rating
                    /\ items[i].notes = lastOp.before[i].notes
                    /\ items[i].genres = lastOp.before[i].genres
        /\ (\A i \in DOMAIN lastOp.before : lastOp.before[i].id # lastOp.id) =>
              /\ items = lastOp.before
              /\ storage = persist(lastOp.before)

\* C28 witness: of two entries with different ids, Finish has just changed
\* the one it was called on and left the other as it was.
C28_Witness ==
    /\ lastOp.op = "finish"
    /\ Len(items) = 2
    /\ \E i, j \in DOMAIN items :
          /\ items[i].id = lastOp.id
          /\ items[i] # lastOp.before[i]
          /\ items[j].id # lastOp.id
          /\ items[j] = lastOp.before[j]
          /\ items[j].status # "finished"

\* C29: normalizeItem is idempotent on every input record: normalizing a
\* normalized record, at any later time, returns the same record, so repeated
\* load/save cycles of the same blob never change any entry.
C29_NormalizeIdempotent ==
    lastOp.op = "load" =>
        \A t \in now..MaxNow :
            /\ \A i \in DOMAIN items : normalizeItem(items[i], t) = items[i]
            /\ loadItems(storage, t) = items
            /\ persist(loadItems(storage, t)) = storage

\* C29 witness: a record stored with a status no handler writes has been
\* loaded, and loaded again at a later time: the second load left it as the
\* first made it.
C29_Witness ==
    /\ lastOp.op = "load"
    /\ now > 1
    /\ lastOp.before # <<>>
    /\ items = lastOp.before
    /\ \E i \in DOMAIN items :
          /\ items[i].status = "started"
          /\ ~items[i].planToWatch

====
